---- MODULE Spec2Model ----
(***************************************************************************)
(* Storage core of cmd_notebook (src-tauri): the configuration file, the   *)
(* data file cmd_notebook.json, its temporary file, and the timestamped    *)
(* backups under <data_dir>/.backup, as changed by the tauri commands      *)
(* save_state, load_state, switch_data_dir and reset_data_dir.             *)
(*                                                                         *)
(* A file's content is an Option: None when the file does not exist,       *)
(* Some(x) when it exists and holds x.  A directory is a tuple: <<p>> is   *)
(* the directory at path p and <<p, BACKUP_DIR>> its backup directory.     *)
(* The configuration file's text is the tuple of the values that           *)
(* serde_json writes, <<data_dir, backup_count>>; <<data_dir>> is a file   *)
(* without the backup_count key and <<>> is text that is not valid JSON    *)
(* (a torn write).                                                         *)
(*                                                                         *)
(* Specifications:                                                         *)
(*   Spec       the commands as atomic steps, every call succeeding, with  *)
(*              the clock and hand edits of the configuration file;        *)
(*   SpecSaves  runs of saves from a fresh directory, with their history;  *)
(*   SpecSteps  save_state and switch_data_dir one file-system call at a   *)
(*              time, with a reader in between;                            *)
(*   SpecRace   a switch_data_dir running alongside a save_state;          *)
(*   SpecFault  save_state and switch_data_dir with one failing call;      *)
(*   SpecDirs   the six commands, get_data_dir_info and check_switch_dir   *)
(*              included.                                                  *)
(* A backup's modification time is the time of the copy.  The .write_test  *)
(* file that is_dir_writable writes and removes is not kept in the state.  *)
(***************************************************************************)
EXTENDS Integers, Sequences, FiniteSets, TLC

\* ------------------------------------------------------------- bounds
\* The clock counts whole seconds 0..MaxTime.
MaxTime == 1
\* The clock of a run of saves counts 0..MaxRunTime.
MaxRunTime == 2
\* backup_count values a configuration file is given: 0..MaxRetention.
MaxRetention == 2
\* Number of commands issued in one behaviour.
MaxOps == 4
\* Number of commands issued in one behaviour in which calls may fail.
MaxFaultOps == 2

\* ---------------------------------------------------------- constants
DEFAULT_BACKUP_COUNT == 10
BACKUP_DIR == ".backup"
CONFIG_DIR == "app_config_dir"

\* What app.path().app_data_dir() returns.
AppDataDir == "appdata"
\* A second directory the user may choose.
CustomDir == "custom"
\* The empty path: PathBuf::new(); files joined to it live in the working directory.
EmptyPath == ""
\* A path at which a regular file exists.
FilePath == "afile"

\* Paths under which directories and files can be created.
Dirs == {EmptyPath, AppDataDir, CustomDir}
\* Every path string a caller may pass.
Paths == Dirs \cup {FilePath}

\* State blobs the caller saves; a file may also hold "", the empty string.
Contents == {"A", "B"}
\* State blobs saved in a run of saves.
RunContents == {"A", "B", "C", "D"}

None == <<>>
Some(x) == <<x>>
IsSome(o) == o # <<>>
Get(o) == o[1]

Min(a, b) == IF a <= b THEN a ELSE b

\* Path::is_file for the paths of the model.
IsRegularFile(p) == p = FilePath

\* ------------------------------------------------------------ results
Ok(w) == [ok |-> TRUE, w |-> w]
Err(w) == [ok |-> FALSE, w |-> w]

\* ------------------------------------------------------ file system
\* The content of <p>/cmd_notebook.json.
DataAt(w, p) == IF p \in Dirs THEN w.data[p] ELSE None

\* The backup entries in <p>/.backup.
BackupsAt(w, p) == IF p \in Dirs THEN w.bak[p] ELSE {}

\* fs::create_dir_all(d): creates d and its missing parents.
create_dir_all(w, d, fail) ==
    IF fail \/ IsRegularFile(d[1])
    THEN Err(w)
    ELSE Ok([w EXCEPT !.dirs = @ \cup {<<d[1]>>, d}])

\* --------------------------------------------------------- config.rs
\* serde_json::to_string_pretty(config)
to_string_pretty(config) == <<config.data_dir, config.backup_count>>

\* serde_json::from_str::<AppConfig>(content); backup_count has a serde default.
from_str(text) ==
    IF Len(text) = 2
    THEN [ok |-> TRUE, config |-> [data_dir |-> text[1], backup_count |-> text[2]]]
    ELSE IF Len(text) = 1
    THEN [ok |-> TRUE,
          config |-> [data_dir |-> text[1], backup_count |-> DEFAULT_BACKUP_COUNT]]
    ELSE [ok |-> FALSE,
          config |-> [data_dir |-> EmptyPath, backup_count |-> DEFAULT_BACKUP_COUNT]]

default_data_dir == AppDataDir

\* fs::write(tmp_path, content) opens (and truncates) the temporary file ...
cfg_create_tmp(w) == [w EXCEPT !.cfgtmp = Some(<<>>)]

\* ... and then writes the whole content.
cfg_write_all(w, content) == [w EXCEPT !.cfgtmp = Some(content)]

\* fs::rename(tmp_path, config_path)
cfg_rename(w) == [w EXCEPT !.cfg = w.cfgtmp, !.cfgtmp = None]

\* save_config: create the directory, write the temporary file, rename it.
\* f names the call that fails, if any.
save_config(w, config, f) ==
    LET mk == create_dir_all(w, <<CONFIG_DIR>>, f = "cfgdir")
        content == to_string_pretty(config)
    IN  IF ~mk.ok THEN Err(w)
        ELSE IF f = "cfgwrite" THEN Err(cfg_create_tmp(mk.w))
        ELSE IF f = "cfgrename" THEN Err(cfg_write_all(cfg_create_tmp(mk.w), content))
        ELSE Ok(cfg_rename(cfg_write_all(cfg_create_tmp(mk.w), content)))

\* load_config: read and parse the file, repairing an empty data_dir in memory;
\* when the file is absent, write the default configuration.
load_config(w, f) ==
    LET dflt == [data_dir |-> default_data_dir, backup_count |-> DEFAULT_BACKUP_COUNT]
    IN  IF IsSome(w.cfg)
        THEN LET p == from_str(Get(w.cfg))
             IN  IF f = "load" \/ ~p.ok
                 THEN [ok |-> FALSE, w |-> w, config |-> dflt]
                 ELSE [ok |-> TRUE, w |-> w,
                       config |-> IF p.config.data_dir = EmptyPath
                                  THEN [p.config EXCEPT !.data_dir = default_data_dir]
                                  ELSE p.config]
        ELSE LET s == save_config(w, dflt, f)
             IN  [ok |-> s.ok, w |-> s.w, config |-> dflt]

\* Path::exists: the empty path names nothing.
path_exists(w, p) == IsRegularFile(p) \/ (p # EmptyPath /\ <<p>> \in w.dirs)

\* Path::is_dir
path_is_dir(w, p) == p # EmptyPath /\ <<p>> \in w.dirs

\* is_dir_writable: create the directory when nothing is at the path, then
\* write and remove <path>/.write_test.  With f = "probe" the write fails: the
\* directory is not writable.
is_dir_writable(w, p, f) ==
    LET mk == IF path_exists(w, p) THEN Ok(w) ELSE create_dir_all(w, <<p>>, f = "mkdir")
    IN  IF ~mk.ok THEN [writable |-> FALSE, w |-> mk.w]
        ELSE IF f = "probe" \/ IsRegularFile(p) THEN [writable |-> FALSE, w |-> mk.w]
        ELSE [writable |-> TRUE, w |-> mk.w]

\* Mutant of check_target_dir: the path is not created when it is missing.
check_target_dir_not_creating(w, p, f) ==
    IF ~path_is_dir(w, p) \/ f = "probe" THEN [value |-> "Invalid", w |-> w]
    ELSE IF IsSome(DataAt(w, p)) THEN [value |-> "HasExistingData", w |-> w]
    ELSE [value |-> "EmptyDir", w |-> w]

\* check_target_dir
check_target_dir(w, p, f) ==
    LET mk == IF path_exists(w, p) THEN Ok(w) ELSE create_dir_all(w, <<p>>, f = "mkdir")
        wr == is_dir_writable(mk.w, p, f)
    IN  IF ~mk.ok THEN [value |-> "Invalid", w |-> mk.w]
        ELSE IF ~path_is_dir(mk.w, p) THEN [value |-> "Invalid", w |-> mk.w]
        ELSE IF ~wr.writable THEN [value |-> "Invalid", w |-> wr.w]
        ELSE IF IsSome(DataAt(wr.w, p)) THEN [value |-> "HasExistingData", w |-> wr.w]
        ELSE [value |-> "EmptyDir", w |-> wr.w]

\* --------------------------------------------------------- backup.rs
\* generate_backup_filename: cmd_notebook_<local time to the second>.json
generate_backup_filename(now) == now

\* Mutant of copy_to_backup: a copy never replaces an entry, as if every
\* backup had a file name of its own.
copy_to_backup_keeping_both(w, src, dir, now) ==
    LET name == generate_backup_filename(now)
        entry == [name |-> name, mtime |-> now, content |-> Get(DataAt(w, src))]
    IN  [w EXCEPT !.bak[dir] = @ \cup {entry}]

\* fs::copy(<src>/cmd_notebook.json, <dir>/.backup/<name>): a new entry, or an
\* overwrite of the entry of the same name; the copy is modified at `now`.
copy_to_backup(w, src, dir, now) ==
    LET name == generate_backup_filename(now)
        entry == [name |-> name, mtime |-> now, content |-> Get(DataAt(w, src))]
    IN  [w EXCEPT !.bak[dir] = {e \in @ : e.name # name} \cup {entry}]

\* The entry of S modified last.
Newest(S) == CHOOSE e \in S : \A o \in S : o.mtime <= e.mtime

\* Mutant of SortByModifiedDesc: time_a.cmp(&time_b), oldest first.
RECURSIVE SortByModifiedAsc(_)
SortByModifiedAsc(S) ==
    IF S = {} THEN <<>>
    ELSE LET e == Newest(S) IN SortByModifiedAsc(S \ {e}) \o <<e>>

\* backups.sort_by(|a, b| time_b.cmp(&time_a)): newest first.
RECURSIVE SortByModifiedDesc(_)
SortByModifiedDesc(S) ==
    IF S = {} THEN <<>>
    ELSE LET e == Newest(S) IN <<e>> \o SortByModifiedDesc(S \ {e})

\* Mutant of cleanup_old_backups: skip(keep_count + 1), one entry too many kept.
cleanup_keeping_one_more(w, dir, keep_count, fail, stuck) ==
    LET backups == BackupsAt(w, dir)
        sorted == SortByModifiedDesc(backups)
        excess == {sorted[i] : i \in (keep_count + 2)..Len(sorted)}
    IN  IF fail THEN Err(w)
        ELSE IF Cardinality(backups) <= keep_count THEN Ok(w)
        ELSE Ok([w EXCEPT !.bak[dir] = @ \ {e \in excess : e.name \notin stuck}])

\* cleanup_old_backups: keep the keep_count newest entries, remove the others;
\* a removal that fails (the entries named in stuck) is ignored.
cleanup_old_backups(w, dir, keep_count, fail, stuck) ==
    LET backups == BackupsAt(w, dir)
        sorted == SortByModifiedDesc(backups)
        excess == {sorted[i] : i \in (keep_count + 1)..Len(sorted)}
    IN  IF fail THEN Err(w)
        ELSE IF Cardinality(backups) <= keep_count THEN Ok(w)
        ELSE Ok([w EXCEPT !.bak[dir] = @ \ {e \in excess : e.name \notin stuck}])

\* Mutant of create_backup_if_changed: no comparison with the new content.
create_backup_always(w, new_content, now, f, stuck) ==
    LET lc == load_config(w, "none")
        dir == lc.config.data_dir
        mk == create_dir_all(lc.w, <<dir, BACKUP_DIR>>, f = "bakdir")
        copied == copy_to_backup(mk.w, dir, dir, now)
        config == load_config(copied, IF f = "reload" THEN "load" ELSE "none")
    IN  IF ~lc.ok THEN Err(lc.w)
        ELSE IF ~IsSome(DataAt(lc.w, dir)) THEN Ok(lc.w)
        ELSE IF ~mk.ok THEN Err(mk.w)
        ELSE IF f = "copy" THEN Err(mk.w)
        ELSE IF ~config.ok THEN Err(config.w)
        ELSE cleanup_old_backups(config.w, dir, config.config.backup_count,
                                 f = "list", stuck)

\* Mutant of create_backup_if_changed: the old backups are cleaned up before
\* the new copy is made.
create_backup_pruning_first(w, new_content, now, f, stuck) ==
    LET lc == load_config(w, "none")
        dir == lc.config.data_dir
        current_content == IF f = "read" THEN "" ELSE Get(DataAt(lc.w, dir))
        mk == create_dir_all(lc.w, <<dir, BACKUP_DIR>>, f = "bakdir")
        config == load_config(mk.w, IF f = "reload" THEN "load" ELSE "none")
        cleaned == cleanup_old_backups(config.w, dir, config.config.backup_count,
                                       f = "list", stuck)
    IN  IF ~lc.ok THEN Err(lc.w)
        ELSE IF ~IsSome(DataAt(lc.w, dir)) THEN Ok(lc.w)
        ELSE IF current_content = new_content THEN Ok(lc.w)
        ELSE IF ~mk.ok THEN Err(mk.w)
        ELSE IF ~config.ok THEN Err(config.w)
        ELSE IF ~cleaned.ok THEN Err(cleaned.w)
        ELSE IF f = "copy" THEN Err(cleaned.w)
        ELSE Ok(copy_to_backup(cleaned.w, dir, dir, now))

\* create_backup_if_changed
create_backup_if_changed(w, new_content, now, f, stuck) ==
    LET lc == load_config(w, "none")
        dir == lc.config.data_dir
        current_content == IF f = "read" THEN "" ELSE Get(DataAt(lc.w, dir))
        mk == create_dir_all(lc.w, <<dir, BACKUP_DIR>>, f = "bakdir")
        copied == copy_to_backup(mk.w, dir, dir, now)
        config == load_config(copied, IF f = "reload" THEN "load" ELSE "none")
    IN  IF ~lc.ok THEN Err(lc.w)
        ELSE IF ~IsSome(DataAt(lc.w, dir)) THEN Ok(lc.w)
        ELSE IF current_content = new_content THEN Ok(lc.w)
        ELSE IF ~mk.ok THEN Err(mk.w)
        ELSE IF f = "copy" THEN Err(mk.w)
        ELSE IF ~config.ok THEN Err(config.w)
        ELSE cleanup_old_backups(config.w, dir, config.config.backup_count,
                                 f = "list", stuck)

\* ------------------------------------------------------------ lib.rs
\* Mutant of fs_create_tmp: the data file itself is opened for writing.
fs_create_in_place(w, dir) == [w EXCEPT !.data[dir] = Some(""), !.tmp[dir] = Some("")]

\* fs::write(tmp_path, data) opens (and truncates) the temporary file ...
fs_create_tmp(w, dir) == [w EXCEPT !.tmp[dir] = Some("")]

\* ... and then writes the whole content.
fs_write_all(w, dir, data) == [w EXCEPT !.tmp[dir] = Some(data)]

\* fs::rename(tmp_path, path)
fs_rename(w, dir) == [w EXCEPT !.data[dir] = w.tmp[dir], !.tmp[dir] = None]

\* The atomic write of save_state: fs::write(tmp_path) then fs::rename.
atomic_write(w, dir, data, f) ==
    IF f = "write" THEN Err(fs_create_tmp(w, dir))
    ELSE IF f = "rename" THEN Err(fs_write_all(fs_create_tmp(w, dir), dir, data))
    ELSE Ok(fs_rename(fs_write_all(fs_create_tmp(w, dir), dir, data), dir))

\* Mutant of save_state: the data is written before the backup is made.
save_state_writing_first(w, data, now, f, stuck) ==
    LET lc == load_config(w, f)
        dir == lc.config.data_dir
        mk == create_dir_all(lc.w, <<dir>>, f = "mkdir")
        bk == create_backup_if_changed(mk.w, data, now, f, stuck)
        wr == atomic_write(bk.w, dir, data, f)
    IN  IF ~lc.ok THEN Err(lc.w)
        ELSE IF ~mk.ok THEN Err(mk.w)
        ELSE IF ~bk.ok THEN Err(wr.w)
        ELSE wr

\* save_state
save_state(w, data, now, f, stuck) ==
    LET lc == load_config(w, f)
        dir == lc.config.data_dir
        mk == create_dir_all(lc.w, <<dir>>, f = "mkdir")
        bk == create_backup_if_changed(mk.w, data, now, f, stuck)
    IN  IF ~lc.ok THEN Err(lc.w)
        ELSE IF ~mk.ok THEN Err(mk.w)
        ELSE IF ~bk.ok THEN Err(bk.w)
        ELSE atomic_write(bk.w, dir, data, f)

\* Mutant of load_state: a missing file is an error like any other.
load_state_not_found_is_error(w, f) ==
    LET lc == load_config(w, f)
        dir == lc.config.data_dir
        mk == create_dir_all(lc.w, <<dir>>, f = "mkdir")
    IN  IF ~lc.ok THEN [ok |-> FALSE, w |-> lc.w, value |-> None]
        ELSE IF ~mk.ok THEN [ok |-> FALSE, w |-> mk.w, value |-> None]
        ELSE IF f = "read" \/ ~IsSome(DataAt(mk.w, dir))
        THEN [ok |-> FALSE, w |-> mk.w, value |-> None]
        ELSE [ok |-> TRUE, w |-> mk.w, value |-> DataAt(mk.w, dir)]

\* load_state: the value is Some(None) for Ok(None), Some(Some(c)) for Ok(Some(c)).
load_state(w, f) ==
    LET lc == load_config(w, f)
        dir == lc.config.data_dir
        mk == create_dir_all(lc.w, <<dir>>, f = "mkdir")
    IN  IF ~lc.ok THEN [ok |-> FALSE, w |-> lc.w, value |-> None]
        ELSE IF ~mk.ok THEN [ok |-> FALSE, w |-> mk.w, value |-> None]
        ELSE IF f = "read" THEN [ok |-> FALSE, w |-> mk.w, value |-> None]
        ELSE [ok |-> TRUE, w |-> mk.w, value |-> DataAt(mk.w, dir)]

\* get_data_dir_info
get_data_dir_info(w, f) ==
    LET lc == load_config(w, f)
        dir == lc.config.data_dir
        wr == is_dir_writable(lc.w, dir, f)
    IN  IF ~lc.ok THEN [ok |-> FALSE, w |-> lc.w, value |-> None]
        ELSE [ok |-> TRUE, w |-> wr.w,
              value |-> [path |-> dir,
                         is_default |-> dir = default_data_dir,
                         data_file_exists |-> IsSome(DataAt(lc.w, dir)),
                         is_writable |-> wr.writable]]

\* check_switch_dir
check_switch_dir(w, path, f) ==
    LET c == check_target_dir(w, path, f)
    IN  [ok |-> TRUE, w |-> c.w, value |-> c.value]

\* backup_file: copy <source>/cmd_notebook.json into <backup_dir>/.backup.
backup_file(w, source, backup_dir, now, f) ==
    LET mk == create_dir_all(w, <<backup_dir, BACKUP_DIR>>, f = "bakdir")
    IN  IF ~IsSome(DataAt(w, source)) THEN Ok(w)
        ELSE IF ~mk.ok THEN Err(mk.w)
        ELSE IF f = "copy" THEN Err(mk.w)
        ELSE Ok(copy_to_backup(mk.w, source, backup_dir, now))

\* fs::copy(from, to) of one data file onto another.  When both name the same
\* file the outcome is the platform's: the file is truncated ("truncate") or
\* the call fails ("error").
copy_data_file(w, from, to, same) ==
    IF from # to THEN Ok([w EXCEPT !.data[to] = DataAt(w, from)])
    ELSE IF same = "truncate" THEN Ok([w EXCEPT !.data[to] = Some("")])
    ELSE Err(w)

\* copy_data_to_new_dir
copy_data_to_new_dir(w, new_dir, f, same) ==
    LET lc == load_config(w, f)
        current == lc.config.data_dir
        mk == create_dir_all(lc.w, <<new_dir>>, f = "newdir")
    IN  IF ~lc.ok THEN Err(lc.w)
        ELSE IF ~IsSome(DataAt(lc.w, current)) THEN Ok(lc.w)
        ELSE IF ~mk.ok THEN Err(mk.w)
        ELSE IF f = "copy" THEN Err(mk.w)
        ELSE copy_data_file(mk.w, current, new_dir, same)

\* Mutant of backup_current: the current data file is not backed up.
backup_current_skipped(w, now, f) ==
    LET lc == load_config(w, f)
    IN  IF ~lc.ok THEN Err(lc.w) ELSE Ok(lc.w)

\* The match of switch_data_dir on UseExisting: back the current data file up.
backup_current(w, now, f) ==
    LET lc == load_config(w, f)
        config == load_config(lc.w, "none")
    IN  IF ~lc.ok THEN Err(lc.w)
        ELSE IF ~IsSome(DataAt(lc.w, lc.config.data_dir)) THEN Ok(lc.w)
        ELSE IF ~config.ok THEN Err(config.w)
        ELSE backup_file(config.w, lc.config.data_dir, config.config.data_dir, now, f)

\* The end of switch_data_dir: load the configuration, set data_dir, save it.
update_config(w, new_dir, f) ==
    LET lc == load_config(w, IF f = "reload" THEN "load" ELSE f)
    IN  IF ~lc.ok THEN Err(lc.w)
        ELSE save_config(lc.w, [lc.config EXCEPT !.data_dir = new_dir], f)

\* Mutant of switch_data_dir: Cancel falls through to the configuration update.
switch_cancel_falls_through(w, path, action, now, f, same) ==
    LET staged == IF action = "CopyToNew"
                  THEN copy_data_to_new_dir(w, path, f, same)
                  ELSE IF action = "UseExisting" THEN backup_current(w, now, f)
                  ELSE Ok(w)
    IN  IF ~staged.ok THEN Err(staged.w)
        ELSE update_config(staged.w, path, f)

\* Mutant of switch_data_dir: the configuration is updated before the copy or
\* the backup is made.
switch_config_first(w, path, action, now, f, same) ==
    LET updated == update_config(w, path, "none")
        staged == IF action = "CopyToNew"
                  THEN copy_data_to_new_dir(w, path, f, same)
                  ELSE backup_current(w, now, f)
    IN  IF action = "Cancel" THEN Ok(w)
        ELSE IF ~updated.ok THEN Err(updated.w)
        ELSE IF ~staged.ok THEN Err([staged.w EXCEPT !.cfg = updated.w.cfg])
        ELSE update_config(staged.w, path, f)

\* switch_data_dir
switch_data_dir(w, path, action, now, f, same) ==
    LET staged == IF action = "CopyToNew"
                  THEN copy_data_to_new_dir(w, path, f, same)
                  ELSE backup_current(w, now, f)
    IN  IF action = "Cancel" THEN Ok(w)
        ELSE IF ~staged.ok THEN Err(staged.w)
        ELSE update_config(staged.w, path, f)

\* Mutant of reset_data_dir: the data file is backed up also when the current
\* directory is the default one.
reset_backing_up_always(w, now, f) ==
    LET default_dir == default_data_dir
        lc == load_config(w, f)
        config == load_config(lc.w, "none")
        bk == IF IsSome(DataAt(lc.w, lc.config.data_dir))
              THEN backup_file(config.w, lc.config.data_dir, config.config.data_dir, now, f)
              ELSE Ok(config.w)
        last == load_config(bk.w, IF f = "reload" THEN "load" ELSE "none")
    IN  IF ~lc.ok THEN Err(lc.w)
        ELSE IF IsSome(DataAt(lc.w, lc.config.data_dir)) /\ ~config.ok THEN Err(config.w)
        ELSE IF ~bk.ok THEN Err(bk.w)
        ELSE IF ~last.ok THEN Err(last.w)
        ELSE save_config(last.w,
                         [data_dir |-> default_dir,
                          backup_count |-> last.config.backup_count], f)

\* reset_data_dir
reset_data_dir(w, now, f) ==
    LET default_dir == default_data_dir
        lc == load_config(w, f)
        config == load_config(lc.w, "none")
        bk == IF IsSome(DataAt(lc.w, lc.config.data_dir))
                 /\ config.config.data_dir # default_dir
              THEN backup_file(config.w, lc.config.data_dir, config.config.data_dir, now, f)
              ELSE Ok(config.w)
        last == load_config(bk.w, IF f = "reload" THEN "load" ELSE "none")
    IN  IF ~lc.ok THEN Err(lc.w)
        ELSE IF IsSome(DataAt(lc.w, lc.config.data_dir)) /\ ~config.ok THEN Err(config.w)
        ELSE IF ~bk.ok THEN Err(bk.w)
        ELSE IF ~last.ok THEN Err(last.w)
        ELSE save_config(last.w,
                         [data_dir |-> default_dir,
                          backup_count |-> last.config.backup_count], f)

\* ------------------------------------------------------------- state
VARIABLES
    configFile,   \* Option: the text of app_config.json
    configTmp,    \* Option: the text of app_config.json.tmp
    dirs,         \* the directories that exist
    dataFile,     \* [Dirs -> Option]: <dir>/cmd_notebook.json
    tmpFile,      \* [Dirs -> Option]: <dir>/cmd_notebook.json.tmp
    backups,      \* [Dirs -> set of entries]: <dir>/.backup/cmd_notebook_*.json
    now,          \* the clock, in seconds
    ret,          \* the last command and what it returned
    hist,         \* the contents and times of the saves of a run of saves
    ops,          \* the number of commands issued so far
    task,         \* the command being run step by step, and where it stands
    switching     \* the switch_data_dir that runs alongside a save_state

vars ==
    <<configFile, configTmp, dirs, dataFile, tmpFile, backups, now, ret, hist, ops, task,
      switching>>

disk == <<configFile, configTmp, dirs, dataFile, tmpFile, backups>>

\* The file system as the record the operators above take.
World ==
    [cfg |-> configFile, cfgtmp |-> configTmp, dirs |-> dirs,
     data |-> dataFile, tmp |-> tmpFile, bak |-> backups]

Commit(w) ==
    /\ configFile' = w.cfg
    /\ configTmp' = w.cfgtmp
    /\ dirs' = w.dirs
    /\ dataFile' = w.data
    /\ tmpFile' = w.tmp
    /\ backups' = w.bak

\* What the configuration file says, as load_config reads it.
Persisted == from_str(Get(configFile)).config
ActiveDir == load_config(World, "none").config.data_dir
Retention == load_config(World, "none").config.backup_count

\* The record of a command: its name, arguments and result, the content of the
\* active data file when it was issued, the step at which a command run in
\* steps stood then, and the number of backup entries of the active backup
\* directory that it removed.
Returned(op, data, path, action, r, value, f, stuck) ==
    [op |-> op, data |-> data, path |-> path, action |-> action,
     ok |-> r.ok, value |-> value, fault |-> f, stuck |-> stuck,
     before |-> DataAt(World, ActiveDir), during |-> task.pc,
     removed |-> Cardinality({e \in BackupsAt(World, ActiveDir) :
                    \A o \in BackupsAt(r.w, ActiveDir) : o.name # e.name})]


\* No command is under way.
Idle ==
    [op |-> "none", pc |-> "idle", data |-> "", path |-> "", action |-> "",
     dir |-> "", old |-> None, removed |-> 0, oldcfg |-> None, newcfg |-> <<>>]

\* No switch runs alongside a save.
NotSwitching == [pc |-> "idle", path |-> "", action |-> "", during |-> "idle"]

Retentions == 0..MaxRetention
\* What fs::copy of a data file onto `path` may do when it is the active one.
SameFileOutcomes(path) ==
    IF path = ActiveDir THEN {"truncate", "error"} ELSE {"truncate"}
Actions == {"CopyToNew", "UseExisting", "Cancel"}

\* The configuration texts a user may have written.
ConfigTexts ==
    {<<d, n>> : d \in {AppDataDir, CustomDir}, n \in Retentions}

\* No data file, no backup, only the working directory; the configuration
\* file absent (first run) or written earlier.
Init ==
    /\ configFile \in {None} \cup {Some(t) : t \in ConfigTexts}
    /\ configTmp = None
    /\ dirs = {<<EmptyPath>>}
    /\ dataFile = [d \in Dirs |-> None]
    /\ tmpFile = [d \in Dirs |-> None]
    /\ backups = [d \in Dirs |-> {}]
    /\ now = 0
    /\ ret = [op |-> "init", data |-> "", path |-> "", action |-> "", ok |-> TRUE,
              value |-> None, fault |-> "none", stuck |-> {},
              before |-> None, during |-> "idle", removed |-> 0]
    /\ hist = <<>>
    /\ ops = 0
    /\ task = Idle
    /\ switching = NotSwitching

\* ----------------------------------------------------------- actions
\* One second passes.
TickTo(limit) ==
    /\ now < limit
    /\ now' = now + 1
    /\ UNCHANGED <<disk, ret, hist, ops, task, switching>>

SaveState(data, f, stuck) ==
    LET r == save_state(World, data, now, f, stuck)
    IN  /\ ops < MaxOps
        /\ ops' = ops + 1
        /\ Commit(r.w)
        /\ ret' = Returned("save_state", data, "", "", r, None, f, stuck)
        /\ UNCHANGED now

LoadState(f) ==
    LET r == load_state(World, f)
    IN  /\ ops < MaxOps
        /\ ops' = ops + 1
        /\ Commit(r.w)
        /\ ret' = Returned("load_state", "", "", "", r, IF r.ok THEN Some(r.value) ELSE None, f, {})
        /\ UNCHANGED now

SwitchDataDir(path, action, f, same) ==
    LET r == switch_data_dir(World, path, action, now, f, same)
    IN  /\ ops < MaxOps
        /\ ops' = ops + 1
        /\ Commit(r.w)
        /\ ret' = Returned("switch_data_dir", "", path, action, r, None, f, {})
        /\ UNCHANGED now

ResetDataDir(f) ==
    LET r == reset_data_dir(World, now, f)
    IN  /\ ops < MaxOps
        /\ ops' = ops + 1
        /\ Commit(r.w)
        /\ ret' = Returned("reset_data_dir", "", "", "", r, None, f, {})
        /\ UNCHANGED now

GetDataDirInfo(f) ==
    LET r == get_data_dir_info(World, f)
    IN  /\ ops < MaxOps
        /\ ops' = ops + 1
        /\ Commit(r.w)
        /\ ret' = Returned("get_data_dir_info", "", "", "", r,
                           IF r.ok THEN Some(r.value) ELSE None, f, {})
        /\ UNCHANGED now

CheckSwitchDir(path, f) ==
    LET r == check_switch_dir(World, path, f)
    IN  /\ ops < MaxOps
        /\ ops' = ops + 1
        /\ Commit(r.w)
        /\ ret' = Returned("check_switch_dir", "", path, "", r, Some(r.value), f, {})
        /\ UNCHANGED now

\* The user rewrites app_config.json by hand; the next command reads it.
ExternalEdit(text) ==
    /\ ops < MaxOps
    /\ ops' = ops + 1
    /\ configFile' = Some(text)
    /\ ret' = Returned("edit", "", "", "", Ok(World), None, "none", {})
    /\ UNCHANGED <<configTmp, dirs, dataFile, tmpFile, backups, now>>

\* ---------------------------------------------------- specifications
\* Every command, with every file-system call succeeding.
Save == \E data \in Contents : SaveState(data, "none", {}) /\ UNCHANGED <<hist, task, switching>>
Load == LoadState("none") /\ UNCHANGED <<hist, task, switching>>
Switch ==
    \E path \in Paths, action \in Actions :
      \E same \in SameFileOutcomes(path) :
        SwitchDataDir(path, action, "none", same) /\ UNCHANGED <<hist, task, switching>>
Reset == ResetDataDir("none") /\ UNCHANGED <<hist, task, switching>>
Edit == \E text \in ConfigTexts : ExternalEdit(text) /\ UNCHANGED <<hist, task, switching>>

Tick == TickTo(MaxTime)

Next == Save \/ Load \/ Switch \/ Reset \/ Edit \/ Tick

Spec == Init /\ [][Next]_vars

\* A run of saves from a fresh data directory, the clock ticking in between.
SaveRun ==
    \E data \in RunContents :
        /\ SaveState(data, "none", {})
        /\ hist' = Append(hist, [data |-> data, at |-> now])
        /\ UNCHANGED <<task, switching>>

RunTick == TickTo(MaxRunTime)

NextSaves == SaveRun \/ RunTick

SpecSaves == Init /\ [][NextSaves]_vars

\* The six commands, the directory probes included.  A probed directory may be
\* impossible to create ("mkdir") or not writable ("probe").
ProbeOutcomes == {"none", "mkdir", "probe"}

Info == \E f \in ProbeOutcomes : GetDataDirInfo(f) /\ UNCHANGED <<hist, task, switching>>
Check ==
    \E path \in Paths, f \in ProbeOutcomes :
        CheckSwitchDir(path, f) /\ UNCHANGED <<hist, task, switching>>

NextDirs == Save \/ Load \/ Switch \/ Reset \/ Info \/ Check

SpecDirs == Init /\ [][NextDirs]_vars

\* ------------------------------------------------- commands in steps
\* save_state and switch_data_dir run one file-system call at a time, so that
\* a reader can run in between.  task.pc names the call that comes next.  The
\* commands of one behaviour run within one second of the clock.

\* The return of the command under way.
Finish(ok) ==
    /\ ret' = [op |-> task.op, data |-> task.data, path |-> task.path,
               action |-> task.action, ok |-> ok, value |-> None,
               fault |-> "none", stuck |-> {},
               before |-> task.old, during |-> "idle", removed |-> task.removed]
    /\ task' = Idle

\* save_state, lib.rs line 20: data_file_path.
BeginSave(data) ==
    LET lc == load_config(World, "none")
        dir == lc.config.data_dir
    IN  /\ task.pc = "idle"
        /\ ops < MaxOps
        /\ ops' = ops + 1
        /\ lc.ok
        /\ Commit(lc.w)
        /\ task' = [Idle EXCEPT !.op = "save_state", !.pc = "mkdir", !.data = data,
                                !.dir = dir, !.old = DataAt(lc.w, dir),
                                !.oldcfg = lc.w.cfg]
        /\ UNCHANGED <<now, ret, hist, switching>>

\* save_state, lines 22-24: create_dir_all(parent).
SaveMkdir ==
    LET mk == create_dir_all(World, <<task.dir>>, FALSE)
    IN  /\ task.op = "save_state" /\ task.pc = "mkdir"
        /\ Commit(mk.w)
        /\ IF mk.ok
           THEN task' = [task EXCEPT !.pc = "backup"] /\ UNCHANGED ret
           ELSE Finish(FALSE)
        /\ UNCHANGED <<now, hist, ops, switching>>

\* save_state, line 27: create_backup_if_changed.
SaveBackup ==
    LET bk == create_backup_if_changed(World, task.data, now, "none", {})
    IN  /\ task.op = "save_state" /\ task.pc = "backup"
        /\ Commit(bk.w)
        /\ IF bk.ok
           THEN /\ task' = [task EXCEPT !.pc = "create",
                       !.removed = Cardinality({e \in BackupsAt(World, task.dir) :
                           \A o \in BackupsAt(bk.w, task.dir) : o.name # e.name})]
                /\ UNCHANGED ret
           ELSE Finish(FALSE)
        /\ UNCHANGED <<now, hist, ops, switching>>

\* save_state, line 31: fs::write opens the temporary file ...
SaveCreate ==
    /\ task.op = "save_state" /\ task.pc = "create"
    /\ Commit(fs_create_tmp(World, task.dir))
    /\ task' = [task EXCEPT !.pc = "write"]
    /\ UNCHANGED <<now, ret, hist, ops, switching>>

\* ... and writes the data.
SaveWrite ==
    /\ task.op = "save_state" /\ task.pc = "write"
    /\ Commit(fs_write_all(World, task.dir, task.data))
    /\ task' = [task EXCEPT !.pc = "rename"]
    /\ UNCHANGED <<now, ret, hist, ops, switching>>

\* save_state, line 32: fs::rename.
SaveRename ==
    /\ task.op = "save_state" /\ task.pc = "rename"
    /\ Commit(fs_rename(World, task.dir))
    /\ Finish(TRUE)
    /\ UNCHANGED <<now, hist, ops, switching>>

\* switch_data_dir, lines 87-105: the copy or the backup.
BeginSwitch(path, action, same) ==
    LET lc == load_config(World, "none")
        staged == IF action = "CopyToNew"
                  THEN copy_data_to_new_dir(World, path, "none", same)
                  ELSE backup_current(World, now, "none")
        begun == [Idle EXCEPT !.op = "switch_data_dir", !.pc = "config",
                              !.path = path, !.action = action,
                              !.dir = lc.config.data_dir,
                              !.old = DataAt(lc.w, lc.config.data_dir),
                              !.oldcfg = staged.w.cfg]
    IN  /\ task.pc = "idle"
        /\ ops < MaxOps
        /\ ops' = ops + 1
        /\ Commit(staged.w)
        /\ IF staged.ok
           THEN task' = begun /\ UNCHANGED ret
           ELSE /\ ret' = Returned("switch_data_dir", "", path, action, staged, None, "none", {})
                /\ task' = Idle
        /\ UNCHANGED <<now, hist, switching>>

\* switch_data_dir, lines 112-114, and save_config, lines 121-129: the new
\* configuration, its directory and its text.
SwitchConfig ==
    LET lc == load_config(World, "none")
        mk == create_dir_all(lc.w, <<CONFIG_DIR>>, FALSE)
        config == [lc.config EXCEPT !.data_dir = task.path]
    IN  /\ task.op = "switch_data_dir" /\ task.pc = "config"
        /\ Commit(mk.w)
        /\ IF lc.ok /\ mk.ok
           THEN /\ task' = [task EXCEPT !.pc = "create",
                                        !.newcfg = to_string_pretty(config)]
                /\ UNCHANGED ret
           ELSE Finish(FALSE)
        /\ UNCHANGED <<now, hist, ops, switching>>

\* save_config, line 133: fs::write opens the temporary file ...
ConfigCreate ==
    /\ task.op = "switch_data_dir" /\ task.pc = "create"
    /\ Commit(cfg_create_tmp(World))
    /\ task' = [task EXCEPT !.pc = "write"]
    /\ UNCHANGED <<now, ret, hist, ops, switching>>

\* ... and writes the text.
ConfigWrite ==
    /\ task.op = "switch_data_dir" /\ task.pc = "write"
    /\ Commit(cfg_write_all(World, task.newcfg))
    /\ task' = [task EXCEPT !.pc = "rename"]
    /\ UNCHANGED <<now, ret, hist, ops, switching>>

\* save_config, line 134: fs::rename.
ConfigRename ==
    /\ task.op = "switch_data_dir" /\ task.pc = "rename"
    /\ Commit(cfg_rename(World))
    /\ Finish(TRUE)
    /\ UNCHANGED <<now, hist, ops, switching>>

\* A reader: load_state, at any moment.
Read == LoadState("none") /\ UNCHANGED <<hist, task, switching>>

StartSave == \E data \in Contents : BeginSave(data)
StartSwitch ==
    \E path \in Paths, action \in {"CopyToNew", "UseExisting"} :
      \E same \in SameFileOutcomes(path) : BeginSwitch(path, action, same)

NextSteps ==
    \/ StartSave \/ SaveMkdir \/ SaveBackup \/ SaveCreate \/ SaveWrite \/ SaveRename
    \/ StartSwitch \/ SwitchConfig \/ ConfigCreate \/ ConfigWrite \/ ConfigRename
    \/ Read

SpecSteps == Init /\ [][NextSteps]_vars

\* ------------------------------------------- a switch alongside a save
\* tauri runs async commands concurrently: while a save_state is under way,
\* step by step as above, switch_data_dir(path, CopyToNew) runs in two steps.

\* Saves start as long as the switch has not.
RaceStartSave == switching.pc = "idle" /\ StartSave

\* switch_data_dir, lines 92-95: copy_data_to_new_dir, during a save.
RaceCopy ==
    \E path \in Paths :
      \E same \in SameFileOutcomes(path) :
        LET staged == copy_data_to_new_dir(World, path, "none", same)
        IN  /\ task.op = "save_state"
            /\ switching.pc = "idle"
            /\ ops < MaxOps
            /\ ops' = ops + 1
            /\ Commit(staged.w)
            /\ switching' = [pc |-> IF staged.ok THEN "config" ELSE "failed",
                             path |-> path, action |-> "CopyToNew",
                             during |-> task.pc]
            /\ UNCHANGED <<now, ret, hist, task>>

\* switch_data_dir, lines 112-117: load_config, save_config, Ok(()).
RaceConfig ==
    LET r == update_config(World, switching.path, "none")
    IN  /\ switching.pc = "config"
        /\ Commit(r.w)
        /\ switching' = [switching EXCEPT !.pc = IF r.ok THEN "done" ELSE "failed"]
        /\ UNCHANGED <<now, ret, hist, ops, task>>

NextRace ==
    \/ RaceStartSave \/ SaveMkdir \/ SaveBackup \/ SaveCreate \/ SaveWrite \/ SaveRename
    \/ RaceCopy \/ RaceConfig
    \/ Read

SpecRace == Init /\ [][NextRace]_vars

\* ------------------------------------------------- failing calls
\* The file-system call that fails while a command runs: "none" for no failure,
\* otherwise the name under which the operators test their parameter f.
\* The calls save_state makes, create_backup_if_changed, cleanup_old_backups,
\* load_config and save_config included:
SaveFaults ==
    {"none", "load", "mkdir", "read", "bakdir", "copy", "reload", "list", "write",
     "rename", "cfgdir", "cfgwrite", "cfgrename"}
\* and those switch_data_dir makes, copy_data_to_new_dir and backup_file included.
SwitchFaults ==
    {"none", "load", "newdir", "copy", "bakdir", "reload", "cfgdir", "cfgwrite",
     "cfgrename"}

\* A failing call, or removals that fail: cleanup_old_backups removes files
\* only when every call before it has succeeded.
Failures ==
    {[f |-> f, stuck |-> {}] : f \in SaveFaults}
        \cup {[f |-> "none", stuck |-> s] : s \in SUBSET (0..MaxTime)}

\* The commands so far ran without a failing call: a behaviour has its
\* failure in its last command.
NoFailureYet == ret.fault = "none" /\ ret.stuck = {}

FaultySave ==
    \E data \in Contents, x \in Failures :
        /\ ops < MaxFaultOps
        /\ NoFailureYet
        /\ SaveState(data, x.f, x.stuck)
        /\ UNCHANGED <<hist, task, switching>>

FaultySwitch ==
    \E path \in Paths, action \in {"CopyToNew", "UseExisting"}, f \in SwitchFaults :
      \E same \in SameFileOutcomes(path) :
        /\ ops < MaxFaultOps
        /\ NoFailureYet
        /\ SwitchDataDir(path, action, f, same)
        /\ UNCHANGED <<hist, task, switching>>

NextFault == FaultySave \/ FaultySwitch \/ Tick

SpecFault == Init /\ [][NextFault]_vars

\* ------------------------------------------------------------ claims
\* The saves of the run have pairwise distinct contents.
DistinctContents ==
    \A i, j \in 1..Len(hist) : i # j => hist[i].data # hist[j].data

\* The saves that make a backup, the second to the last, fall in pairwise
\* distinct seconds.
DistinctBackupSeconds ==
    \A i, j \in 2..Len(hist) : i # j => hist[i].at # hist[j].at

\* The number of backups a run of n saves is said to leave.
Expected == Min(Len(hist) - 1, Retention)

\* C1 (as stated): after saves c1..cn of pairwise distinct contents from a
\* fresh data directory, the active backup directory holds min(n-1, retention)
\* entries, whatever the times of the saves.
C1_CountWhateverTheTimes ==
    (hist # <<>> /\ DistinctContents)
        => Cardinality(backups[ActiveDir]) = Expected

\* C1 (amended): the same, for runs whose backup-making saves fall in pairwise
\* distinct clock seconds.
C1_CountDistinctSeconds ==
    (hist # <<>> /\ DistinctContents /\ DistinctBackupSeconds)
        => Cardinality(backups[ActiveDir]) = Expected

\* Four saves one second apart under a retention of 2: the third backup pruned one.
C1_Witness ==
    /\ Len(hist) = 4
    /\ DistinctContents
    /\ DistinctBackupSeconds
    /\ Retention = 2
    /\ Cardinality(backups[ActiveDir]) = 2

\* The contents c(n-k)..c(n-1) of a run, k = min(n-1, retention).
RecentPrior == {hist[i].data : i \in (Len(hist) - Expected)..(Len(hist) - 1)}

\* C2 (as stated): after saves c1..cn of pairwise distinct contents, the backups
\* that remain are one copy each of the min(n-1, retention) most recent prior
\* contents, and no other.
C2_RecentPriorRemain ==
    (hist # <<>> /\ DistinctContents)
        => /\ {e.content : e \in backups[ActiveDir]} = RecentPrior
           /\ Cardinality(backups[ActiveDir]) = Cardinality(RecentPrior)

\* C2 (amended): the same, for runs whose backup-making saves fall in pairwise
\* distinct clock seconds.
C2_RecentPriorRemainDistinctSeconds ==
    (hist # <<>> /\ DistinctContents /\ DistinctBackupSeconds)
        => /\ {e.content : e \in backups[ActiveDir]} = RecentPrior
           /\ Cardinality(backups[ActiveDir]) = Cardinality(RecentPrior)

\* Retention 2 and saves A, B, C, D one second apart: copies of B and C remain.
C2_Witness ==
    /\ Len(hist) = 4
    /\ hist[1].data = "A" /\ hist[2].data = "B"
    /\ hist[3].data = "C" /\ hist[4].data = "D"
    /\ Retention = 2
    /\ {e.content : e \in backups[ActiveDir]} = {"B", "C"}

\* A step that issues command op.
Cmd(op) == ops' = ops + 1 /\ ret'.op = op

\* No data file exists anywhere: no save has occurred.
NothingSaved == \A d \in Dirs : dataFile[d] = None

C4_SameContentNoBackup ==
    [][(Cmd("save_state") /\ DataAt(World, ActiveDir) = Some(ret'.data)) =>
        /\ backups' = backups
        /\ dataFile' = dataFile
        /\ ret'.ok]_vars

\* The content saved was already on disk, in a backup directory holding more
\* entries than the retention: a prune would have removed some.
C4_Witness ==
    /\ ret.op = "save_state"
    /\ ret.ok
    /\ ret.before = Some(ret.data)
    /\ Cardinality(backups[ActiveDir]) > Retention

\* The entries of P that are among the k modified last.
NewestOf(P, k) == {e \in P : Cardinality({o \in P : o.mtime > e.mtime}) < k}

\* The backup entries present in the active backup directory once a save has
\* copied the data file there, before it prunes.
BeforePrune ==
    {e \in backups[ActiveDir] : e.name # now}
        \cup {[name |-> now, mtime |-> now, content |-> Get(DataAt(World, ActiveDir))]}

\* C5: when a save creates a backup, the active backup directory holds right
\* afterwards at most backup_count entries: exactly the backup_count most
\* recently modified of those present before the prune.
C5_PruneKeepsNewest ==
    [][(/\ Cmd("save_state")
        /\ ret'.ok
        /\ IsSome(DataAt(World, ActiveDir))
        /\ DataAt(World, ActiveDir) # Some(ret'.data)) =>
        /\ Cardinality(backups'[ActiveDir]) <= Retention
        /\ backups'[ActiveDir] = NewestOf(BeforePrune, Retention)]_vars

\* A save under a retention of 0 pruned an entry that an earlier switch or a
\* lowered backup_count had left in excess.
C5_Witness ==
    /\ ret.op = "save_state"
    /\ ret.ok
    /\ IsSome(ret.before) /\ ret.before # Some(ret.data)
    /\ Retention = 0
    /\ ret.removed >= 1
    /\ backups[ActiveDir] = {}

\* C7: switch_data_dir(path, Cancel) returns Ok and changes no file and no
\* directory, whatever the path and the state.
C7_CancelChangesNothing ==
    [][(Cmd("switch_data_dir") /\ ret'.action = "Cancel") =>
        (ret'.ok /\ UNCHANGED disk)]_vars

\* A Cancel issued before any configuration file exists.
C7_Witness ==
    /\ ret.op = "switch_data_dir"
    /\ ret.action = "Cancel"
    /\ ret.ok
    /\ configFile = None

\* C8 (as stated): a successful switch_data_dir(newPath, CopyToNew) issued while
\* the current data file holds X ends with newPath/cmd_notebook.json holding X
\* and the persisted data_dir equal to newPath, for every newPath.
C8_CopyToNewCarriesData ==
    [][(/\ Cmd("switch_data_dir")
        /\ ret'.action = "CopyToNew"
        /\ ret'.ok
        /\ IsSome(DataAt(World, ActiveDir))) =>
        /\ ret'.path \in Dirs
        /\ dataFile'[ret'.path] = DataAt(World, ActiveDir)
        /\ from_str(Get(configFile')).config.data_dir = ret'.path]_vars

\* C9 (as stated): a successful switch_data_dir(candidate, UseExisting) issued
\* while the old directory's data file holds X leaves a backup of X in the old
\* backup directory, changes neither candidate's data file nor candidate's
\* backups, leaves the old data file, and persists data_dir = candidate.
C9_UseExistingBacksUpOld ==
    [][(/\ Cmd("switch_data_dir")
        /\ ret'.action = "UseExisting"
        /\ ret'.ok
        /\ IsSome(DataAt(World, ActiveDir))) =>
        /\ \E e \in backups'[ActiveDir] : Some(e.content) = dataFile[ActiveDir]
        /\ ret'.path \in Dirs =>
               /\ dataFile'[ret'.path] = dataFile[ret'.path]
               /\ backups'[ret'.path] = backups[ret'.path]
        /\ dataFile'[ActiveDir] = dataFile[ActiveDir]
        /\ from_str(Get(configFile')).config.data_dir = ret'.path]_vars

\* C9 (amended): the same, candidate's backups being unchanged when candidate
\* is another directory than the old one.
C9_UseExistingBacksUpOldElsewhere ==
    [][(/\ Cmd("switch_data_dir")
        /\ ret'.action = "UseExisting"
        /\ ret'.ok
        /\ IsSome(DataAt(World, ActiveDir))) =>
        /\ \E e \in backups'[ActiveDir] : Some(e.content) = dataFile[ActiveDir]
        /\ ret'.path \in Dirs => dataFile'[ret'.path] = dataFile[ret'.path]
        /\ (ret'.path \in Dirs /\ ret'.path # ActiveDir) =>
               backups'[ret'.path] = backups[ret'.path]
        /\ dataFile'[ActiveDir] = dataFile[ActiveDir]
        /\ from_str(Get(configFile')).config.data_dir = ret'.path]_vars

\* UseExisting from appdata, holding "A", to custom, holding "B".
C9_Witness ==
    /\ ret.op = "switch_data_dir"
    /\ ret.action = "UseExisting"
    /\ ret.ok
    /\ ret.path = CustomDir
    /\ ret.before = Some("A")
    /\ Persisted.data_dir = CustomDir
    /\ dataFile[CustomDir] = Some("B")
    /\ dataFile[AppDataDir] = Some("A")
    /\ \E e \in backups[AppDataDir] : e.content = "A"

\* Every content held by a data file or a backup entry, in the primed state.
ContentsKept ==
    {Get(dataFile'[d]) : d \in {x \in Dirs : IsSome(dataFile'[x])}}
        \cup UNION {{e.content : e \in backups'[d]} : d \in Dirs}

\* The directory a command switches to.
Target == IF ret'.op = "reset_data_dir" THEN default_data_dir ELSE ret'.path

\* C10: after a successful switch_data_dir (CopyToNew or UseExisting) or
\* reset_data_dir, every content a data file held before, in the old or in the
\* target directory, is still held by a data file or a backup entry.
C10_SwitchLosesNoData ==
    [][(/\ \/ Cmd("switch_data_dir") /\ ret'.action # "Cancel"
           \/ Cmd("reset_data_dir")
        /\ ret'.ok) =>
        \A d \in Dirs \cap {ActiveDir, Target} :
            IsSome(dataFile[d]) => Get(dataFile[d]) \in ContentsKept]_vars

\* C6: while one save_state(new) runs over a data file holding old, the data
\* file holds old or new at every step, and a load_state run in between
\* returns old or new; while save_config runs, the configuration file holds
\* its old text or the whole new text.
C6_ReadersSeeOldOrNew ==
    /\ [](task.op = "save_state" /\ IsSome(task.old)
            => dataFile[task.dir] \in {task.old, Some(task.data)})
    /\ [](task.op = "switch_data_dir"
            => IF task.pc = "config"
               THEN configFile = task.oldcfg
               ELSE configFile \in {task.oldcfg, Some(task.newcfg)})
    /\ [][(Cmd("load_state") /\ task.op = "save_state" /\ IsSome(task.old))
            => (ret'.ok /\ ret'.value \in {Some(task.old), Some(Some(task.data))})]_vars

\* A load_state that ran while save_state("B") had opened the temporary file
\* and not yet written it returned the old content "A".
C6_Witness ==
    /\ ret.op = "load_state"
    /\ ret.during = "write"
    /\ ret.value = Some(Some("A"))
    /\ task.op = "save_state"
    /\ task.data = "B"
    /\ tmpFile[task.dir] = Some("")

\* C11: a save_state(c) whose backup fails, at the creation of the backup
\* directory or at the copy of the old data file, returns an error and has
\* written nothing: every data file and every temporary file is as before.
C11_FailedBackupAbortsSave ==
    [][(/\ Cmd("save_state")
        /\ ret'.fault \in {"bakdir", "copy"}
        /\ IsSome(DataAt(World, ActiveDir))
        /\ DataAt(World, ActiveDir) # Some(ret'.data)) =>
        /\ ~ret'.ok
        /\ dataFile' = dataFile
        /\ tmpFile' = tmpFile]_vars

\* save_state("B") over a data file holding "A" failed at the copy, after the
\* backup directory was created: the data file still holds "A".
C11_Witness ==
    /\ ret.op = "save_state"
    /\ ret.fault = "copy"
    /\ ~ret.ok
    /\ ret.data = "B"
    /\ ret.before = Some("A")
    /\ dataFile[ActiveDir] = Some("A")
    /\ <<ActiveDir, BACKUP_DIR>> \in dirs
    /\ backups[ActiveDir] = {}

\* C12 (as stated): when save_state(c) has copied the backup and the pruning
\* fails, because an excess backup cannot be removed or because the backup
\* directory cannot be listed, save_state returns Ok and the data file holds c.
C12_PruneFailureNotFatal ==
    [][(/\ Cmd("save_state")
        /\ IsSome(DataAt(World, ActiveDir))
        /\ DataAt(World, ActiveDir) # Some(ret'.data)
        /\ \/ ret'.fault = "list"
           \/ ret'.fault = "none" /\ ret'.stuck # {}) =>
        /\ ret'.ok
        /\ dataFile'[ActiveDir] = Some(ret'.data)]_vars

\* The half of C12 about removals: a backup that cannot be removed stays, and
\* the save succeeds.
C12_StuckBackupNotFatal ==
    [][(/\ Cmd("save_state")
        /\ IsSome(DataAt(World, ActiveDir))
        /\ DataAt(World, ActiveDir) # Some(ret'.data)
        /\ ret'.fault = "none" /\ ret'.stuck # {}) =>
        /\ ret'.ok
        /\ dataFile'[ActiveDir] = Some(ret'.data)]_vars

\* The configuration a command works with: what load_config returns.
EffectiveConfig == load_config(World, "none").config

\* C13: when switch_data_dir returns an error, at whatever stage, the
\* configuration file, if there was one, is unchanged, and the data_dir and
\* backup_count in effect are those of before the call.
C13_FailedSwitchKeepsConfig ==
    [][(Cmd("switch_data_dir") /\ ~ret'.ok) =>
        /\ IsSome(configFile) => configFile' = configFile
        /\ EffectiveConfig' = EffectiveConfig]_vars

\* A CopyToNew to custom failed at the rename of the configuration file: the
\* data was copied, and the configuration still names appdata.
C13_Witness ==
    /\ ret.op = "switch_data_dir"
    /\ ret.action = "CopyToNew"
    /\ ret.path = CustomDir
    /\ ret.fault = "cfgrename"
    /\ ~ret.ok
    /\ dataFile[CustomDir] = Some("A")
    /\ Persisted.data_dir = AppDataDir

\* C14 (as stated): after any sequence of the six commands the data_dir stored
\* in the configuration file is not empty; and a command that finds it empty
\* works in the platform default directory and leaves the file as it is.
C14_DataDirNeverEmpty ==
    /\ [](IsSome(configFile) => Persisted.data_dir # EmptyPath)
    /\ [][(Cmd("load_state") /\ IsSome(configFile) /\ Persisted.data_dir = EmptyPath)
            => (ActiveDir = default_data_dir /\ configFile' = configFile)]_vars

\* The second half of C14 alone: the repair of an empty data_dir is in memory.
C14_EmptyDataDirRepairedInMemory ==
    [][(Cmd("load_state") /\ IsSome(configFile) /\ Persisted.data_dir = EmptyPath)
            => (ActiveDir = default_data_dir /\ configFile' = configFile)]_vars

\* The backup directory of dir once the data file of dir has been copied into
\* it at time now.
WithBackupOf(dir) ==
    {e \in backups[dir] : e.name # generate_backup_filename(now)}
        \cup {[name |-> generate_backup_filename(now), mtime |-> now,
                content |-> Get(dataFile[dir])]}

\* C15: a successful reset_data_dir leaves data_dir = the platform default
\* and backup_count as it was; it adds a backup of the current data file to
\* the current directory's backups exactly when that file exists and the
\* current directory is not the default one; and it changes no data file.
C15_ResetToDefault ==
    [][(Cmd("reset_data_dir") /\ ret'.ok) =>
        /\ from_str(Get(configFile')).config
               = [data_dir |-> default_data_dir, backup_count |-> Retention]
        /\ IF IsSome(DataAt(World, ActiveDir)) /\ ActiveDir # default_data_dir
           THEN backups' = [backups EXCEPT ![ActiveDir] = WithBackupOf(ActiveDir)]
           ELSE backups' = backups
        /\ dataFile' = dataFile]_vars

\* A reset from custom, holding "A": backed up in custom, nothing copied to the
\* default directory, retention kept.
C15_Witness ==
    /\ ret.op = "reset_data_dir"
    /\ ret.ok
    /\ ret.before = Some("A")
    /\ Persisted = [data_dir |-> AppDataDir, backup_count |-> 1]
    /\ dataFile[AppDataDir] = None
    /\ dataFile[CustomDir] = Some("A")
    /\ \E e \in backups[CustomDir] : e.content = "A"

\* C16 (as stated): get_data_dir_info changes nothing: the configuration
\* file, the directories that exist and every file are the same after the call
\* as before it, in every state.
C16_InfoNeverMutates ==
    [][Cmd("get_data_dir_info") => UNCHANGED disk]_vars

\* What of C16 holds: get_data_dir_info changes no data file, no backup and no
\* existing configuration file.
C16_InfoKeepsData ==
    [][Cmd("get_data_dir_info") =>
        /\ UNCHANGED <<dataFile, tmpFile, backups>>
        /\ IsSome(configFile) => configFile' = configFile]_vars

\* C17: check_switch_dir(path) never returns an error.  A path at which
\* nothing exists and a directory can be created yields EmptyDir, and the
\* directory then exists with no data file in it; a writable directory
\* holding cmd_notebook.json yields HasExistingData; a regular file, a path
\* that cannot be created, a directory that is not writable and the empty
\* path yield Invalid.  The call changes neither the configuration nor a data
\* file nor a backup, and repeating it yields the same classification.
C17_CheckClassifies ==
    [][Cmd("check_switch_dir") =>
        LET p == ret'.path
            f == ret'.fault
            missing == p \in Dirs \ {EmptyPath} /\ <<p>> \notin dirs
            present == p \in Dirs \ {EmptyPath} /\ <<p>> \in dirs
        IN  /\ ret'.ok
            /\ (missing /\ f = "none") =>
                   /\ ret'.value = Some("EmptyDir")
                   /\ <<p>> \in dirs'
                   /\ dataFile'[p] = None
            /\ (present /\ f # "probe" /\ IsSome(dataFile[p])) =>
                   ret'.value = Some("HasExistingData")
            /\ (present /\ f # "probe" /\ ~IsSome(dataFile[p])) =>
                   ret'.value = Some("EmptyDir")
            /\ (\/ IsRegularFile(p)
                \/ p = EmptyPath
                \/ missing /\ f = "mkdir"
                \/ f = "probe") => ret'.value = Some("Invalid")
            /\ UNCHANGED <<configFile, configTmp, dataFile, tmpFile, backups>>
            /\ Some(check_switch_dir(World', p, f).value) = ret'.value]_vars

\* The first command checked custom, which did not exist: EmptyDir, and custom
\* now exists without a data file.
C17_Witness ==
    /\ ops = 1
    /\ ret.op = "check_switch_dir"
    /\ ret.path = CustomDir
    /\ ret.value = Some("EmptyDir")
    /\ <<CustomDir>> \in dirs
    /\ dataFile[CustomDir] = None

\* The step is a successful command that copies the active data file into the
\* active backup directory.
MakesBackup ==
    /\ ops' = ops + 1
    /\ ret'.ok
    /\ IsSome(DataAt(World, ActiveDir))
    /\ \/ ret'.op = "save_state" /\ DataAt(World, ActiveDir) # Some(ret'.data)
       \/ ret'.op = "switch_data_dir" /\ ret'.action = "UseExisting"
       \/ ret'.op = "reset_data_dir" /\ ActiveDir # default_data_dir

\* C18: a backup made in a directory that already holds a backup made in the
\* same clock second takes that backup's file name: the directory gains no
\* entry, and the entry of that name, where the pruning of a save leaves it,
\* holds the content copied last.
C18_SameSecondOverwrites ==
    [][(/\ MakesBackup
        /\ \E e \in backups[ActiveDir] : e.name = generate_backup_filename(now)) =>
        /\ Cardinality(backups'[ActiveDir]) <= Cardinality(backups[ActiveDir])
        /\ {e.name : e \in backups'[ActiveDir]} \subseteq {e.name : e \in backups[ActiveDir]}
        /\ \A e \in backups'[ActiveDir] :
               e.name = generate_backup_filename(now)
                   => e.content = Get(DataAt(World, ActiveDir))
        /\ ret'.op # "save_state"
               => \E e \in backups'[ActiveDir] : e.name = generate_backup_filename(now)]_vars

\* First run, all within second 0: save "A", CopyToNew to custom, save "B"
\* (backing "A" up in custom), reset (backing "B" up in custom): custom holds
\* one backup, of "B".
C18_Witness ==
    /\ ops = 4 /\ now = 0
    /\ Persisted.backup_count = DEFAULT_BACKUP_COUNT
    /\ ret.op = "reset_data_dir" /\ ret.ok
    /\ ret.before = Some("B")
    /\ dataFile[AppDataDir] = Some("A")
    /\ dataFile[CustomDir] = Some("B")
    /\ backups[AppDataDir] = {}
    /\ backups[CustomDir] = {[name |-> 0, mtime |-> 0, content |-> "B"]}

\* C19 (as stated): when a save_state(c) and a switch_data_dir(newDir,
\* CopyToNew) that ran alongside it have both returned Ok, the load_state that
\* follows returns c.
C19_SaveSurvivesSwitch ==
    [][(/\ Cmd("load_state")
        /\ task = Idle
        /\ ret.op = "save_state" /\ ret.ok
        /\ switching.pc = "done") =>
        (ret'.ok /\ ret'.value = Some(Some(ret.data)))]_vars

\* C20 (as stated): after a successful switch_data_dir(path, CopyToNew or
\* UseExisting) check_switch_dir does not classify path as Invalid; and a
\* switch to a path that is a regular file leaves the configuration as it was.
C20_SwitchValidatesTarget ==
    [][(Cmd("switch_data_dir") /\ ret'.action # "Cancel") =>
        /\ ret'.ok => check_target_dir(World', ret'.path, "none").value # "Invalid"
        /\ IsRegularFile(ret'.path) => EffectiveConfig' = EffectiveConfig]_vars
====
